---------------------------- MODULE Spec2Model ----------------------------
(***************************************************************************)
(* Model of text_compare.py: key based reconciliation of two record files. *)
(*                                                                         *)
(* A Python str is a sequence of one-character strings, so that split,     *)
(* int and slicing are computed and not assumed.  A record is a sequence   *)
(* of fields, a key a sequence (tuple) of fields.  Sequences are 1-based   *)
(* here; field positions reported by get_diff keep Python's 0-based        *)
(* numbering.                                                              *)
(***************************************************************************)
EXTENDS Integers, Sequences, FiniteSets, TLC

VARIABLES config, fileA, fileB, dictA, dictB, common_keys, aonly_keys,
          bonly_keys, todo, i, call, diffs, diff_count, diff_samples,
          rec_matched, num_fields, report, pc

vars == <<config, fileA, fileB, dictA, dictB, common_keys, aonly_keys,
          bonly_keys, todo, i, call, diffs, diff_count, diff_samples,
          rec_matched, num_fields, report, pc>>

-----------------------------------------------------------------------------
(* Bounds of the model.                                                    *)

\* longest input file, in records
MaxRecs == 2
\* longest record handed to get_diff on its own
MaxArity == 2

-----------------------------------------------------------------------------
(* Python values.                                                          *)

\* None: a value no str (sequence of characters) is equal to
None == <<"None">>

\* bool(x) of a str or None
Truthy(s) == s # None /\ s # <<>>

Digits == {"0", "1", "2", "3", "4", "5", "6", "7", "8", "9"}

DigitVal(c) ==
  CASE c = "0" -> 0 [] c = "1" -> 1 [] c = "2" -> 2 [] c = "3" -> 3
    [] c = "4" -> 4 [] c = "5" -> 5 [] c = "6" -> 6 [] c = "7" -> 7
    [] c = "8" -> 8 [] c = "9" -> 9

\* int(s) succeeds (unsigned decimal literals only)
IsInt(s) == s # None /\ s # <<>> /\ \A n \in 1..Len(s) : s[n] \in Digits

RECURSIVE IntOf(_)
\* int(s) for a str of digits
IntOf(s) ==
  IF s = <<>> THEN 0
  ELSE 10 * IntOf(SubSeq(s, 1, Len(s) - 1)) + DigitVal(s[Len(s)])

RECURSIVE StrOf(_)
\* str(n) for n >= 0
StrOf(n) ==
  IF n < 10 THEN <<CHOOSE c \in Digits : DigitVal(c) = n>>
  ELSE StrOf(n \div 10) \o <<CHOOSE c \in Digits : DigitVal(c) = n % 10>>

RECURSIVE split(_, _)
\* s.split(sep) for a one-character sep: ''.split(',') is ['']
split(s, sep) ==
  IF \A n \in 1..Len(s) : s[n] # sep THEN <<s>>
  ELSE LET p == CHOOSE n \in 1..Len(s) :
                  s[n] = sep /\ \A m \in 1..(n - 1) : s[m] # sep
       IN  <<SubSeq(s, 1, p - 1)>> \o split(SubSeq(s, p + 1, Len(s)), sep)

\* one row of csv.reader(f, delimiter=del): the fields of the line, and no
\* field at all for an empty line (the lines drawn hold no quote character)
csv_reader(line, del) == IF line = <<>> THEN <<>> ELSE split(line, del)

\* line[lo:hi] for 0 <= lo <= hi (a slice never fails, it is cut short)
Slice(line, lo, hi) ==
  LET h == IF hi > Len(line) THEN Len(line) ELSE hi
  IN  IF lo >= h THEN <<>> ELSE SubSeq(line, lo + 1, h)

RECURSIVE delimitFrom(_, _, _)
delimitFrom(line, lengths, offset) ==
  IF lengths = <<>> THEN <<>>
  ELSE <<Slice(line, offset, offset + Head(lengths))>>
         \o delimitFrom(line, Tail(lengths), offset + Head(lengths))

\* tuple(delimit(line, lengths))
delimit(line, lengths) == delimitFrom(line, lengths, 0)

\* the result of a call: a value, or the exception it raised
Ret(v) == [exc |-> "none", val |-> v]
Raise(e) == [exc |-> e, val |-> <<>>]

\* data[n] for a Python index n, negative ones counting from the end
InRange(data, n) == IF n >= 0 THEN n < Len(data) ELSE -n <= Len(data)
Item(data, n) == IF n >= 0 THEN data[n + 1] ELSE data[Len(data) + n + 1]

\* get_key(data, keyfields)
get_key(data, keyfields) ==
  IF keyfields = None THEN Raise("AttributeError")
  ELSE LET parts == split(keyfields, ",")
       IN  IF \E n \in 1..Len(parts) : ~IsInt(parts[n])
             THEN Raise("ValueError")
           ELSE IF \E n \in 1..Len(parts) : ~InRange(data, IntOf(parts[n]) - 1)
             THEN Raise("IndexError")
           ELSE Ret([n \in 1..Len(parts) |-> Item(data, IntOf(parts[n]) - 1)])

\* min(a, b)
Min(a, b) == IF a < b THEN a ELSE b

\* the filter of the comprehension of get_diff: "a != b and str(i+1)"; the
\* test against ignorefields is commented out in the source
DiffKept(a, b, n, ignorefields) == a # b /\ Truthy(StrOf(n + 1))

\* a get_diff that numbers the fields from 1
FieldDiff_OneBased(n, a, b, key) == <<n + 1, a, b, key>>

\* one entry of the list get_diff returns: (index of the field in the
\* record, value on sideA, value on sideB, key for the record)
FieldDiff(n, a, b, key) == <<n, a, b, key>>

RECURSIVE DiffList(_, _, _, _, _)
\* the comprehension of get_diff over enumerate(zip(seqA, seqB)) from the
\* 0-based position n on, key being the value of get_key(seqA, keyfields)
DiffList(seqA, seqB, n, key, ignorefields) ==
  IF n >= Min(Len(seqA), Len(seqB)) THEN <<>>
  ELSE (IF DiffKept(seqA[n + 1], seqB[n + 1], n, ignorefields)
          THEN <<FieldDiff(n, seqA[n + 1], seqB[n + 1], key)>>
          ELSE <<>>)
       \o DiffList(seqA, seqB, n + 1, key, ignorefields)

\* a length test that only sees a longer seqA
LengthMismatch_Longer(seqA, seqB) == Len(seqA) > Len(seqB)

\* the test of line 90, made when keyfields is not given
LengthMismatch(seqA, seqB) == Len(seqA) # Len(seqB)

\* get_diff(seqA, seqB, keyfields, ignorefields)
get_diff(seqA, seqB, keyfields, ignorefields) ==
  LET kA == get_key(seqA, keyfields)
      kB == get_key(seqB, keyfields)
      kept == \E n \in 0..(Min(Len(seqA), Len(seqB)) - 1) :
                DiffKept(seqA[n + 1], seqB[n + 1], n, ignorefields)
  IN  IF Truthy(keyfields) /\ kA.exc # "none" THEN Raise(kA.exc)
      ELSE IF Truthy(keyfields) /\ kB.exc # "none" THEN Raise(kB.exc)
      ELSE IF Truthy(keyfields) /\ kA.val # kB.val THEN Raise("KeyError")
      ELSE IF ~Truthy(keyfields) /\ LengthMismatch(seqA, seqB)
        THEN Raise("ValueError")
      ELSE IF kept /\ kA.exc # "none" THEN Raise(kA.exc)
      ELSE Ret(DiffList(seqA, seqB, 0, kA.val, ignorefields))

-----------------------------------------------------------------------------
(* The keyed index: an OrderedDict, kept as the sequence of its            *)
(* <<key, record>> items in insertion order.                               *)

Keys(d) == {d[n][1] : n \in 1..Len(d)}

\* a lookup that hands out the first record whatever the key
Lookup_First(d, k) == d[1][2]

\* d[k] for a key of d
Lookup(d, k) == d[CHOOSE n \in 1..Len(d) : d[n][1] = k][2]

\* an insertion that keeps the record a key already has
Insert_KeepFirst(d, k, rec) ==
  IF k \in Keys(d) THEN d ELSE Append(d, <<k, rec>>)

\* d[k] = rec: a key already present keeps its place and takes the new record
Insert(d, k, rec) ==
  IF k \in Keys(d)
    THEN [n \in 1..Len(d) |-> IF d[n][1] = k THEN <<k, rec>> ELSE d[n]]
    ELSE Append(d, <<k, rec>>)

\* one row of a file as the record main indexes: a csv row when both
\* delimiters are configured (del names the one of this file), the
\* fixed-width slices otherwise
Row(cfg, line, del) ==
  IF "fileADel" \in DOMAIN cfg /\ "fileBDel" \in DOMAIN cfg
    THEN csv_reader(line, cfg[del][1])
    ELSE LET widths == split(cfg["colwidths"], ",")
         IN  delimit(line, [n \in 1..Len(widths) |-> IntOf(widths[n])])

RECURSIVE BuildFrom(_, _, _, _, _)
\* OrderedDict((get_key(x, keyfields), x) for _, x in enumerate(rows)
\*             if _ >= int(skipRecs)), from the 0-based position pos on
BuildFrom(rows, keyfields, skipRecs, pos, d) ==
  IF pos >= Len(rows) THEN Ret(d)
  ELSE IF ~IsInt(skipRecs) THEN Raise("ValueError")
  ELSE IF pos < IntOf(skipRecs)
    THEN BuildFrom(rows, keyfields, skipRecs, pos + 1, d)
  ELSE LET k == get_key(rows[pos + 1], keyfields)
       IN  IF k.exc # "none" THEN Raise(k.exc)
           ELSE BuildFrom(rows, keyfields, skipRecs, pos + 1,
                          Insert(d, k.val, rows[pos + 1]))

\* the index main builds from the lines of one file
BuildIndex(cfg, lines, del) ==
  BuildFrom([n \in 1..Len(lines) |-> Row(cfg, lines[n], del)],
            cfg["keyfields"], cfg["skipRecs"], 0, <<>>)

\* set(dictA.keys()).intersection(set(dictB.keys()))
CommonKeys(dA, dB) == Keys(dA) \cap Keys(dB)

\* the keys of A with nothing taken away
AOnlyKeys_NoMinus(dA, dB) == Keys(dA)

\* set(dictA.keys()) - set(dictB.keys())
AOnlyKeys(dA, dB) == Keys(dA) \ Keys(dB)

\* set(dictB.keys()) - set(dictA.keys())
BOnlyKeys(dA, dB) == Keys(dB) \ Keys(dA)

-----------------------------------------------------------------------------
(* The aggregation of one diff list (the else branch of the try).          *)

\* defaultdict(int): a position never counted reads 0
Count(dc, f) == IF f \in DOMAIN dc THEN dc[f] ELSE 0

\* diff_count[f] += 1
Bump(dc, f) ==
  [g \in DOMAIN dc \cup {f} |-> IF g = f THEN Count(dc, f) + 1 ELSE dc[g]]

\* a cap that lets one sample too many through
Sampled_OffByOne(cfg, c) ==
  IF "keyMismatchThreshold" \in DOMAIN cfg
    THEN c <= IntOf(cfg["keyMismatchThreshold"]) + 1
    ELSE TRUE

\* whether the diff just counted as the c-th of its field is sampled
Sampled(cfg, c) ==
  IF "keyMismatchThreshold" \in DOMAIN cfg
    THEN c <= IntOf(cfg["keyMismatchThreshold"])
    ELSE TRUE

RECURSIVE Aggregate(_, _, _, _, _)
\* the loop "for diff in diffs" of the iteration numbered n: the pair
\* <<diff_count, diff_samples>> after it
Aggregate(cfg, n, ds, dc, smp) ==
  IF ds = <<>> THEN <<dc, smp>>
  ELSE LET d == Head(ds)
           dc1 == Bump(dc, d[1])
       IN  Aggregate(cfg, n, Tail(ds), dc1,
                     IF Sampled(cfg, dc1[d[1]]) THEN Append(smp, <<n, d>>)
                     ELSE smp)

\* a counter that takes every compared record for a match
Matched_Always(rm, ds) == rm + 1

\* lines 167-176: rec_matched after an iteration whose diff list is ds
Matched(rm, ds) == IF ds = <<>> THEN rm + 1 ELSE rm

\* an aggregation that starts the samples afresh in every iteration
AfterDiffs_Reset(cfg, n, ds, dc, smp, rm) ==
  Aggregate(cfg, n, ds, dc, <<>>) \o <<Matched(rm, ds)>>

\* the else branch of the try in the iteration numbered n:
\* <<diff_count, diff_samples, rec_matched>> after it
AfterDiffs(cfg, n, ds, dc, smp, rm) ==
  Aggregate(cfg, n, ds, dc, smp) \o <<Matched(rm, ds)>>

-----------------------------------------------------------------------------
(* The inputs drawn.                                                       *)

\* the lines of fileA and of fileB, without their line ends (csv.reader
\* drops them, and the column widths drawn end before them)
LinesA == { <<"1", ",", "a", ",", "x">>, <<"2", ",", "b", ",", "y">>,
            <<"1", ",", "a", ",", "z">> }
LinesB == { <<"1", ",", "a", ",", "z">>, <<"3", ",", "c", ",", "w">>,
            <<"2", ",", "c", ",", "w">> }

\* the files of at most MaxRecs lines
FilesOf(lines) == UNION {[1..n -> lines] : n \in 0..MaxRecs}

\* the optional keys of a configuration: absent, or one of the values
Optional(key, values) == {<<>>} \cup {key :> v : v \in values}

KeyFieldOptions == { <<"1">>, <<"2", ",", "1">>, <<"3">> }
IgnoreFieldOptions == { <<"3">> }
ColWidthOptions == { <<"2", ",", "3">> }
SkipRecsOptions == { <<"0">>, <<"1">> }
ThresholdOptions == { <<"0">>, <<"1">> }

\* the mandatory keys of a configuration besides the format
KeyedConfigs ==
  { ("keyfields" :> kf) @@ ("skipRecs" :> s) :
      kf \in KeyFieldOptions, s \in SkipRecsOptions }

\* delimited files, with or without ignorefields and keyMismatchThreshold
DelimitedConfigs ==
  { ("fileADel" :> <<",">>) @@ ("fileBDel" :> <<",">>) @@ c @@ ig @@ th :
      c \in KeyedConfigs,
      ig \in Optional("ignorefields", IgnoreFieldOptions),
      th \in Optional("keyMismatchThreshold", ThresholdOptions) }

\* fixed-width files
FixedWidthConfigs ==
  { ("colwidths" :> w) @@ c : w \in ColWidthOptions, c \in KeyedConfigs }

\* the configurations parse_config hands to main
Configs == DelimitedConfigs \cup FixedWidthConfigs

\* i and num_fields before their first assignment
Unbound == -1

\* the metafile of field names, read before anything else (line 108) and
\* used by the report alone: None when the configuration has no metafile
MetaFiles == { None, << <<"k">>, <<"f">>, <<"g">> >> }

Init ==
  /\ config \in Configs
  /\ fileA \in FilesOf(LinesA)
  /\ fileB \in FilesOf(LinesB)
  /\ dictA = <<>>
  /\ dictB = <<>>
  /\ common_keys = {}
  /\ aonly_keys = {}
  /\ bonly_keys = {}
  /\ todo = {}
  /\ i = Unbound
  /\ call = <<>>
  /\ diffs = Ret(<<>>)
  /\ diff_count = <<>>
  /\ diff_samples = <<>>
  /\ rec_matched = 0
  /\ num_fields = Unbound
  /\ report = <<>>
  /\ pc = "setup"

-----------------------------------------------------------------------------
(* The steps of main.                                                      *)

\* lines 115-148: both indexes, then the three key sets; a get_key that
\* fails while an index is built ends the run
InitialSetup ==
  /\ pc = "setup"
  /\ \E a \in {BuildIndex(config, fileA, "fileADel")},
        b \in {BuildIndex(config, fileB, "fileBDel")} :
         IF a.exc # "none" \/ b.exc # "none"
           THEN /\ pc' = "aborted"
                /\ UNCHANGED <<dictA, dictB, common_keys, aonly_keys,
                               bonly_keys, todo>>
           ELSE /\ pc' = "compare"
                /\ dictA' = a.val
                /\ dictB' = b.val
                /\ common_keys' = CommonKeys(a.val, b.val)
                /\ aonly_keys' = AOnlyKeys(a.val, b.val)
                /\ bonly_keys' = BOnlyKeys(a.val, b.val)
                /\ todo' = CommonKeys(a.val, b.val)
  /\ UNCHANGED <<config, fileA, fileB, i, call, diffs, diff_count,
                 diff_samples, rec_matched, num_fields, report>>

\* the arguments of the call of get_diff for the key k (lines 156-159):
\* the default None for ignorefields when the configuration has none
DiffArgs(cfg, dA, dB, k) ==
  <<Lookup(dA, k), Lookup(dB, k), cfg["keyfields"],
    IF "ignorefields" \in DOMAIN cfg THEN cfg["ignorefields"] ELSE None>>

\* the try block: config['keyfields'] itself raises KeyError when missing
TryDiff(cfg, dA, dB, k) ==
  IF "keyfields" \notin DOMAIN cfg THEN Raise("KeyError")
  ELSE LET a == DiffArgs(cfg, dA, dB, k)
       IN  get_diff(a[1], a[2], a[3], a[4])

\* a loop that catches the ValueError alone
Caught_ValueOnly(r) == r.exc = "ValueError"

\* the exceptions the loop catches (lines 160-164)
Caught(r) == r.exc \in {"ValueError", "KeyError"}

\* lines 152-176: one iteration, for any key not yet visited (a set is
\* iterated in no particular order)
Compare ==
  /\ pc = "compare"
  /\ \E k \in todo :
     \E n \in {IF i = Unbound THEN 1 ELSE i + 1},
        r \in {TryDiff(config, dictA, dictB, k)} :
       LET agg == AfterDiffs(config, n, r.val, diff_count, diff_samples,
                             rec_matched)
       IN  /\ todo' = todo \ {k}
           /\ i' = n
           /\ call' = IF "keyfields" \in DOMAIN config
                        THEN DiffArgs(config, dictA, dictB, k) ELSE call
           /\ diffs' = r
           /\ IF Caught(r)
                THEN UNCHANGED <<diff_count, diff_samples, rec_matched,
                                 num_fields, pc>>
              ELSE IF r.exc # "none"
                THEN /\ pc' = "crashed"
                     /\ UNCHANGED <<diff_count, diff_samples, rec_matched,
                                    num_fields>>
              ELSE /\ num_fields' = Len(dictA)
                   /\ diff_count' = agg[1]
                   /\ diff_samples' = agg[2]
                   /\ rec_matched' = agg[3]
                   /\ UNCHANGED pc
  /\ UNCHANGED <<config, fileA, fileB, dictA, dictB, common_keys,
                 aonly_keys, bonly_keys, report>>

\* lines 178-179: show_progress(i, l, ...) after the loop; i is unbound when
\* there was no common key
EndComparison ==
  /\ pc = "compare"
  /\ todo = {}
  /\ pc' = IF i = Unbound THEN "crashed" ELSE "report"
  /\ UNCHANGED <<config, fileA, fileB, dictA, dictB, common_keys,
                 aonly_keys, bonly_keys, todo, i, call, diffs, diff_count,
                 diff_samples, rec_matched, num_fields, report>>

\* 'Column ' + str(x + 1)
ColumnName(x) == <<"C", "o", "l", "u", "m", "n", " ">> \o StrOf(x + 1)

RECURSIVE Ascending(_)
\* the elements of a set of numbers, smallest first (the order in which a
\* dict of small ints is iterated)
Ascending(S) ==
  IF S = {} THEN <<>>
  ELSE LET m == CHOOSE x \in S : \A y \in S : x <= y
       IN  <<m>> \o Ascending(S \ {m})

\* lines 187-202 of the report, as <<label, value>> rows
HeaderRows ==
  << <<"fileA", Len(dictA)>>, <<"fileB", Len(dictB)>>,
     <<"Number of recs exclusive to FileA", Cardinality(aonly_keys)>>,
     <<"Number of recs exclusive to FileB", Cardinality(bonly_keys)>>,
     <<"Rows compared", Cardinality(common_keys)>>,
     <<"Rows matched", rec_matched>>,
     <<"Rows mismatched", Cardinality(common_keys) - rec_matched>> >>

\* lines 204-205: one row per counted field
CountRows(file_fields) ==
  LET fs == Ascending(DOMAIN diff_count)
  IN  [n \in 1..Len(fs) |-> <<file_fields[fs[n] + 1], diff_count[fs[n]]>>]

\* lines 211-215: one row per sample
SampleRows(file_fields) ==
  [n \in 1..Len(diff_samples) |->
     LET d == diff_samples[n]
     IN  <<d[1], d[2][4], file_fields[d[2][1] + 1], d[2][2], d[2][3]>>]

\* lines 181-216: the report, written from the finished diff_count and
\* diff_samples.  The run dies with the report unwritten or cut short when
\* num_fields is unbound (line 182), when a counted field has no name
\* (line 205), when the key has no name (line 208), and in the last
\* show_progress(i, l) when there is no sample at all (line 216, a
\* division by l = 0).  The dumps of exclusive records (fileAOnly,
\* fileBOnly) are not configured.
WriteReport ==
  /\ pc = "report"
  /\ \E meta \in MetaFiles :
       LET named == Truthy(meta)
           ff == IF named THEN meta
                 ELSE [x \in 1..num_fields |-> ColumnName(x - 1)]
           keynames == get_key(ff, config["keyfields"])
       IN  IF ~named /\ num_fields = Unbound
             THEN /\ report' = <<>>
                  /\ pc' = "crashed"
           ELSE IF \E f \in DOMAIN diff_count : f >= Len(ff)
             THEN /\ report' = HeaderRows
                  /\ pc' = "crashed"
           ELSE IF "keyfields" \notin DOMAIN config \/ keynames.exc # "none"
             THEN /\ report' = HeaderRows \o CountRows(ff)
                  /\ pc' = "crashed"
           ELSE /\ report' = HeaderRows \o CountRows(ff)
                               \o << <<"Line#", keynames.val>> >>
                               \o SampleRows(ff)
                /\ pc' = IF diff_samples = <<>> THEN "crashed" ELSE "done"
  /\ UNCHANGED <<config, fileA, fileB, dictA, dictB, common_keys,
                 aonly_keys, bonly_keys, todo, i, call, diffs, diff_count,
                 diff_samples, rec_matched, num_fields>>

Next == InitialSetup \/ Compare \/ EndComparison \/ WriteReport

\* a run of main on two files
Spec == Init /\ [][Next]_vars

-----------------------------------------------------------------------------
(* get_diff on its own: any two records, with and without keyfields and    *)
(* ignorefields.                                                           *)

FieldValues == { <<"a">>, <<"b">> }

\* the records of at most MaxArity fields
Records == UNION {[1..n -> FieldValues] : n \in 0..MaxArity}

KeyFieldArgs == { None, <<>>, <<"1">>, <<"2">> }
IgnoreFieldArgs == { None, <<"1">>, <<"2">>, <<"1", ",", "2">> }

InitDiff ==
  /\ call \in Records \X Records \X KeyFieldArgs \X IgnoreFieldArgs
  /\ pc = "call"
  /\ config = <<>>
  /\ fileA = <<>>
  /\ fileB = <<>>
  /\ dictA = <<>>
  /\ dictB = <<>>
  /\ common_keys = {}
  /\ aonly_keys = {}
  /\ bonly_keys = {}
  /\ todo = {}
  /\ i = Unbound
  /\ diffs = Ret(<<>>)
  /\ diff_count = <<>>
  /\ diff_samples = <<>>
  /\ rec_matched = 0
  /\ num_fields = Unbound
  /\ report = <<>>

\* one call of get_diff, its result or its exception left in diffs
CallGetDiff ==
  /\ pc = "call"
  /\ diffs' = get_diff(call[1], call[2], call[3], call[4])
  /\ pc' = "returned"
  /\ UNCHANGED <<config, fileA, fileB, dictA, dictB, common_keys,
                 aonly_keys, bonly_keys, todo, i, call, diff_count,
                 diff_samples, rec_matched, num_fields, report>>

NextDiff == CallGetDiff

SpecDiff == InitDiff /\ [][NextDiff]_vars

-----------------------------------------------------------------------------
(* The comparison loop of main on its own, over any two indexes: the keys  *)
(* need not be the keys of the records they index and keyfields may be     *)
(* empty or missing, which main never gets to, so that get_diff raises.    *)

LoopKeys == { << <<"1">> >>, << <<"2">> >> }
LoopRecords == { << <<"1">>, <<"a">> >>, << <<"1">>, <<"b">> >>,
                 << <<"2">>, <<"a">> >>, << <<"1">> >> }

\* the indexes of at most MaxRecs items
Indexes ==
  { d \in UNION {[1..n -> LoopKeys \X LoopRecords] : n \in 0..MaxRecs} :
      \A m, n \in 1..Len(d) : d[m][1] = d[n][1] => m = n }

LoopConfigs ==
  { ("fileADel" :> <<",">>) @@ ("fileBDel" :> <<",">>)
      @@ ("skipRecs" :> <<"0">>) @@ kf @@ th :
      kf \in Optional("keyfields", { <<>>, <<"1">>, <<"2">> }),
      th \in Optional("keyMismatchThreshold", { <<"1">> }) }

InitLoop ==
  /\ config \in LoopConfigs
  /\ dictA \in Indexes
  /\ dictB \in Indexes
  /\ fileA = <<>>
  /\ fileB = <<>>
  /\ common_keys = CommonKeys(dictA, dictB)
  /\ aonly_keys = AOnlyKeys(dictA, dictB)
  /\ bonly_keys = BOnlyKeys(dictA, dictB)
  /\ todo = common_keys
  /\ i = Unbound
  /\ call = <<>>
  /\ diffs = Ret(<<>>)
  /\ diff_count = <<>>
  /\ diff_samples = <<>>
  /\ rec_matched = 0
  /\ num_fields = Unbound
  /\ report = <<>>
  /\ pc = "compare"

NextLoop == Compare \/ EndComparison \/ WriteReport

SpecLoop == InitLoop /\ [][NextLoop]_vars

-----------------------------------------------------------------------------
(* The properties.                                                         *)

\* the indexes are built and the key sets computed
SetupDone == pc \in {"compare", "report", "done", "crashed"}

\* the loop over the common keys has ended
AfterLoop == SetupDone /\ todo = {} /\ (diffs.exc = "none" \/ Caught(diffs))

\* the step is an iteration of the comparison loop
IsIteration == pc = "compare" /\ todo' # todo

\* C1: the key sets aonly_keys, bonly_keys and common_keys that main
\* computes from the two indexes are pairwise disjoint, their union is
\* keys(A) \cup keys(B), and they are keys(A) - keys(B), keys(B) - keys(A)
\* and keys(A) \cap keys(B).
C1_KeySetsPartition ==
  SetupDone =>
    LET KA == Keys(dictA)
        KB == Keys(dictB)
    IN  /\ \A k \in KA \cup KB \cup aonly_keys \cup bonly_keys \cup common_keys :
             /\ k \in aonly_keys <=> (k \in KA /\ k \notin KB)
             /\ k \in bonly_keys <=> (k \in KB /\ k \notin KA)
             /\ k \in common_keys <=> (k \in KA /\ k \in KB)
        /\ aonly_keys \cap bonly_keys = {}
        /\ aonly_keys \cap common_keys = {}
        /\ bonly_keys \cap common_keys = {}
        /\ aonly_keys \cup bonly_keys \cup common_keys = KA \cup KB

\* the three sets are all non-empty
C1_Witness ==
  pc = "compare" /\ aonly_keys # {} /\ bonly_keys # {} /\ common_keys # {}

\* the 1-based position n + 1 is listed in ignorefields
Ignored(n, ignorefields) ==
  /\ ignorefields # None
  /\ \E m \in 1..Len(split(ignorefields, ",")) :
       LET part == split(ignorefields, ",")[m]
       IN  IsInt(part) /\ IntOf(part) = n + 1

\* C2: get_diff never returns a FieldDiff for a position listed in
\* ignorefields, and two records that differ at ignored positions only
\* get an empty diff list.
C2_IgnoredFieldsNotReported ==
  (call # <<>> /\ diffs.exc = "none") =>
    /\ \A n \in 1..Len(diffs.val) : ~Ignored(diffs.val[n][1], call[4])
    /\ (\A n \in 0..(Min(Len(call[1]), Len(call[2])) - 1) :
          call[1][n + 1] # call[2][n + 1] => Ignored(n, call[4]))
         => diffs.val = <<>>

\* the configured keyMismatchThreshold
Threshold == IntOf(config["keyMismatchThreshold"])

\* the 0-based field positions of the records of A
Positions == UNION {0..(Len(dictA[n][2]) - 1) : n \in 1..Len(dictA)}

\* the number of common keys whose two records differ at position f
Mismatches(f) ==
  Cardinality({k \in common_keys :
                 LET a == Lookup(dictA, k)
                     b == Lookup(dictB, k)
                 IN  f < Min(Len(a), Len(b)) /\ a[f + 1] # b[f + 1]})

\* the number of samples kept for position f
SamplesOf(f) ==
  Cardinality({n \in 1..Len(diff_samples) : diff_samples[n][2][1] = f})

\* C3: with keyMismatchThreshold = T, after the loop every field with
\* M > T mismatches has at most T samples and a diff_count of exactly M.
C3_SamplesCappedPerField ==
  (AfterLoop /\ "keyMismatchThreshold" \in DOMAIN config) =>
    \A f \in Positions :
      Mismatches(f) > Threshold =>
        SamplesOf(f) <= Threshold /\ Count(diff_count, f) = Mismatches(f)

\* a field over a threshold of at least 1, and more samples in all than
\* the threshold
C3_Witness ==
  /\ AfterLoop
  /\ "keyMismatchThreshold" \in DOMAIN config
  /\ Threshold >= 1
  /\ \E f \in Positions : Mismatches(f) > Threshold
  /\ Len(diff_samples) > Threshold

\* the records main reads from the lines of a file
RowsOf(lines, del) == [n \in 1..Len(lines) |-> Row(config, lines[n], del)]

\* the 1-based places of the rows at 0-based positions >= skipRecs
Retained(rows) ==
  {n \in 1..Len(rows) : n - 1 >= IntOf(config["skipRecs"])}

\* the keys of the rows, taken one by one
KeysOf(rows) ==
  [n \in 1..Len(rows) |-> get_key(rows[n], config["keyfields"]).val]

\* d holds the distinct keys of the retained rows, each with the last row
\* that has it, and one item less per overwrite
LastWriteWins(d, lines, del) ==
  \A rows \in {RowsOf(lines, del)} :
    \A P \in {Retained(rows)} :
      \A key \in {[n \in P |-> KeysOf(rows)[n]]} :
        /\ Keys(d) = {key[n] : n \in P}
        /\ \A n \in P :
             (\A m \in P : m > n => key[m] # key[n])
               => Lookup(d, key[n]) = rows[n]
        /\ Len(d) = Cardinality(P)
                      - Cardinality({n \in P : \E m \in P :
                                       m < n /\ key[m] = key[n]})

\* C4: the index main builds from N records with skip count S holds
\* exactly the distinct keys of the records at positions >= S, each key
\* with the last record that has it.
C4_IndexLastWriteWins ==
  SetupDone =>
    /\ LastWriteWins(dictA, fileA, "fileADel")
    /\ LastWriteWins(dictB, fileB, "fileBDel")

\* two different retained records of fileA share a key: the index has the
\* later one only
C4_Witness ==
  /\ pc = "compare"
  /\ Len(fileA) = 2
  /\ Len(dictA) = 1
  /\ fileA[1] # fileA[2]
  /\ dictA[1][2] = Row(config, fileA[2], "fileADel")

\* C5: get_diff called without keyfields on two records of unequal arity
\* raises ValueError (LengthMismatch) and returns nothing.
C5_LengthMismatchRaised ==
  (pc = "returned" /\ ~Truthy(call[3]) /\ Len(call[1]) # Len(call[2]))
    => diffs = Raise("ValueError")

\* a call without keyfields whose seqA is the shorter record
C5_Witness ==
  /\ pc = "returned"
  /\ call[3] = None
  /\ Len(call[1]) < Len(call[2])
  /\ diffs.exc = "ValueError"

\* C6: an iteration in which get_diff raises KeyError or ValueError leaves
\* diff_count, diff_samples and rec_matched as they were and stays in the
\* loop, having taken one key; the loop ends having visited every common
\* key once.
C6_ErrorsCaughtInLoop ==
  /\ [][(IsIteration /\ diffs'.exc \in {"KeyError", "ValueError"})
          => /\ UNCHANGED <<diff_count, diff_samples, rec_matched>>
             /\ pc' = "compare"
             /\ \E k \in todo : todo' = todo \ {k}
             /\ i' = IF i = Unbound THEN 1 ELSE i + 1]_vars
  /\ [](pc = "report" => todo = {} /\ i = Cardinality(common_keys))

\* two common keys: the first one visited raised, the second one matched
C6_Witness ==
  /\ pc = "report"
  /\ i = 2
  /\ diffs = Ret(<<>>)
  /\ rec_matched = 1
  /\ diff_count = <<>>

\* the scenario of C7: "1,a,x", "2,b,y" against "1,a,z", "3,c,w",
\* delimited by ",", keyfields = "1", skipRecs = 0
C7_Scenario ==
  /\ "fileADel" \in DOMAIN config
  /\ config["keyfields"] = <<"1">>
  /\ config["skipRecs"] = <<"0">>
  /\ fileA = << <<"1", ",", "a", ",", "x">>, <<"2", ",", "b", ",", "y">> >>
  /\ fileB = << <<"1", ",", "a", ",", "z">>, <<"3", ",", "c", ",", "w">> >>

\* C7: in the scenario AOnly = {("2",)}, BOnly = {("3",)},
\* Common = {("1",)}, and the diff of key "1" is the one FieldDiff
\* (2, "x", "z", ("1",)).
C7_EndToEnd ==
  (C7_Scenario /\ SetupDone) =>
    /\ aonly_keys = { << <<"2">> >> }
    /\ bonly_keys = { << <<"3">> >> }
    /\ common_keys = { << <<"1">> >> }
    /\ i # Unbound =>
         diffs = Ret(<< <<2, <<"x">>, <<"z">>, << <<"1">> >> >> >>)

\* the scenario, its one common key compared
C7_Witness == C7_Scenario /\ i = 1 /\ todo = {}

\* C8: an iteration on two identical records gets an empty list from
\* get_diff; an iteration with an empty list adds one to rec_matched and
\* leaves diff_count and diff_samples alone, one with a non-empty list
\* leaves rec_matched alone; after the loop rec_matched is the number of
\* common keys with an empty diff list.
C8_MatchedCounted ==
  /\ [][IsIteration
          => /\ call'[1] = call'[2] => diffs' = Ret(<<>>)
             /\ diffs' = Ret(<<>>)
                  => /\ rec_matched' = rec_matched + 1
                     /\ UNCHANGED <<diff_count, diff_samples>>
             /\ (diffs'.exc = "none" /\ diffs'.val # <<>>)
                  => rec_matched' = rec_matched]_vars
  /\ [](AfterLoop =>
          rec_matched =
            Cardinality({k \in common_keys :
                           TryDiff(config, dictA, dictB, k) = Ret(<<>>)}))

\* two common keys, one with identical records and one with a diff
C8_Witness ==
  /\ pc = "report"
  /\ i = 2
  /\ rec_matched = 1
  /\ diff_samples # <<>>
  /\ \E k \in common_keys : Lookup(dictA, k) = Lookup(dictB, k)

\* C9: the key of dictA[k] and the key of dictB[k] are both k for every
\* common key k, and get_diff never raises KeyError in the loop of main.
C9_NoKeyMismatch ==
  /\ SetupDone =>
       \A k \in common_keys :
         /\ get_key(Lookup(dictA, k), config["keyfields"]) = Ret(k)
         /\ get_key(Lookup(dictB, k), config["keyfields"]) = Ret(k)
  /\ diffs.exc # "KeyError"

\* two common keys compared, out of indexes of two records each
C9_Witness ==
  pc = "report" /\ i = 2 /\ Len(dictA) = 2 /\ Len(dictB) = 2

\* C10: no step lowers an entry of diff_count or removes or rewrites an
\* entry of diff_samples, and once the loop has ended neither changes.
C10_AccumulateMonotonically ==
  [][/\ \A f \in DOMAIN diff_count :
          f \in DOMAIN diff_count' /\ diff_count'[f] >= diff_count[f]
     /\ Len(diff_samples') >= Len(diff_samples)
     /\ SubSeq(diff_samples', 1, Len(diff_samples)) = diff_samples
     /\ (pc \in {"report", "done"} \/ (pc = "compare" /\ todo = {}))
          => UNCHANGED <<diff_count, diff_samples>>]_vars

\* a written report with samples of two iterations
C10_Witness ==
  /\ pc = "done"
  /\ Len(diff_samples) >= 2
  /\ diff_samples[1][1] # diff_samples[Len(diff_samples)][1]

=============================================================================
